---- MODULE Spec2Model ----
(***************************************************************************)
(* A model of the nexidyn segmented downloader (src/lib/Downloader.js and  *)
(* src/bin/nexidyn.js): the main script, getFileInfo, getParallelServers,  *)
(* downloadWithoutChunking, chunk planning, the chunk fetches started by   *)
(* downloadFile, the attempt-retry loop of downloadChunk, the              *)
(* catch-and-repeat loop of downloadChunkWithResume, the throttle, the     *)
(* progress display, the batch awaits and mergeChunks.                     *)
(*                                                                         *)
(* A byte of the remote file is modelled by its offset, so a file is a     *)
(* sequence of offsets and the source file is <<0, 1, ..., fileSize-1>>.   *)
(***************************************************************************)
EXTENDS Integers, Sequences, FiniteSets, TLC

VARIABLES
    fileSize,             \* content-length of the header probe
    threads,              \* downloadFile argument
    serversLen,           \* servers.length
    retries,              \* downloadFile argument
    connectionsPerServer, \* downloadFile argument
    phase,                \* where downloadFile is
    plan,                 \* per chunk: the arguments of its downloadChunkWithResume
    batchStart,           \* i of the batch loop
    pc,                   \* per chunk: where its downloadChunkWithResume is
    resumePosition,       \* per chunk: local of downloadChunkWithResume
    attempts,             \* per chunk: local of the running downloadChunk
    rangeStart,           \* per chunk: first byte of the Range header in use
    sent,                 \* per chunk: offset of the next byte of the live response
    zombie,               \* per chunk: bytes abandoned responses may still deliver
    exists,               \* per chunk: the temp chunk file exists
    chunkFile,            \* per chunk: content of the temp chunk file
    totalDownloaded,      \* totalDownloaded.size
    output,               \* bytes handed to the writer of the output file
    mergeIndex,           \* i of mergeChunks
    mergeStage,           \* "open": reader created; "piped": its data was piped
    \* history, read by the properties only
    issued,               \* per chunk: ranged requests issued so far
    responses,            \* per chunk: requests that were answered with a response
    delays,               \* per chunk: the sleeps taken so far, in order
    exhaustedAt,          \* per chunk: issued[i] when downloadChunk first threw, else -1
    reported,             \* per chunk: sum of the progressCallback arguments
    mergeInput,           \* the temp files as they were when mergeChunks was called
    unlinked,             \* the chunks whose temp file mergeChunks has unlinked
    faults,               \* transport and filesystem faults injected so far
    mergeFailure,         \* "none", or what failed in mergeChunks: "read", "unlink"
    \* the main script
    urlGiven,             \* a URL argument was given
    exitCode,             \* the exit code of the process, -1 while it runs
    \* getFileInfo, getParallelServers, downloadWithoutChunking
    probes,               \* header probes issued
    probeStatus,          \* how the header probe ended: NoResponse, TransportFailure
                          \* or the status of its response
    serversOutcome,       \* "none", or how the request of getParallelServers ended
    responseUrl,             \* request.res.responseUrl of the response to it, else <<>>
    parallelServers,      \* downloadFile argument
    servers,              \* the result of getParallelServers, <<>> before
    serverRequests,       \* requests issued by getParallelServers
    plainRequests,        \* un-ranged requests issued by downloadWithoutChunking
    body,                 \* the un-ranged response stream
    outputCreated,        \* a writer of the output file has been created
    \* the progress callback and updateProgress
    debug,                \* this.debug
    now,                  \* Date.now()
    ticks,                \* advances of the clock so far
    startTime,            \* local of downloadFile
    lastUpdateTime,       \* local of downloadFile
    lastDownloadedSize,   \* local of downloadFile
    lastDetailedLogTime,  \* local of downloadFile
    sampleTime,           \* history: time of the last sample displayed, -1 if none
    sampleBytes,          \* history: totalDownloaded.size at the last sample
    samples,              \* history: samples displayed so far
    speed,                \* history: bytes and milliseconds of the last speed computed
    fullLineTime,         \* history: time of the last full-line log, -1 if none
    fullLines,            \* history: full-line logs so far
    \* the throttle
    throttle,             \* downloadFile argument
    throttled,            \* per chunk: a throttle sleep of its data handler is pending
    \* the writers of the temp chunk files
    buffered,             \* per chunk: bytes handed to its writer and not yet in the file
    \* two transfers of one process
    instanceOf,           \* per transfer: the Downloader instance downloadFile is called on
    transferPhase,        \* per transfer: where its downloadFile is
    unitPc,               \* per transfer and chunk: where its fetch is
    unitSent,             \* per transfer and chunk: offset of the next byte of its response
    tempFile,             \* per temp file path: the content of the file
    tempExists,           \* per temp file path: the file exists
    transferMergeIndex,   \* per transfer: i of its mergeChunks
    transferOutput,       \* per transfer: bytes piped to its output file
    touchedBy,            \* history, per temp file path: the transfers that have read,
                          \* appended to or unlinked the file
    \* the file name of getFileInfo
    urlSegment,           \* the part of fileUrl after its last "/", as characters
    disposition,          \* the content-disposition header of the probe's response
    contentType,          \* its content-type header, split at ";"
    nameStage,            \* where the naming of getFileInfo is
    filename,             \* local of getFileInfo
    extension,            \* local of getFileInfo
    fullFilename          \* the filename getFileInfo returns

cliVars == <<urlGiven, exitCode>>
infoVars == <<probes, probeStatus, parallelServers, servers, serverRequests,
              serversOutcome, responseUrl, plainRequests, body>>
clock == <<now, ticks>>
progressLocals == <<startTime, lastUpdateTime, lastDownloadedSize, lastDetailedLogTime>>
progressHistory == <<sampleTime, sampleBytes, samples, speed, fullLineTime, fullLines>>
progressVars == <<debug, clock, progressLocals, progressHistory>>
throttleVars == <<throttle, throttled>>
writerVars == <<buffered>>
twinVars == <<instanceOf, transferPhase, unitPc, unitSent, tempFile, tempExists,
              transferMergeIndex, transferOutput, touchedBy>>
nameVars == <<urlSegment, disposition, contentType, nameStage, filename, extension,
              fullFilename>>
aside == <<cliVars, infoVars, progressVars, throttleVars, writerVars, twinVars, nameVars>>

vars == <<fileSize, threads, serversLen, retries, connectionsPerServer, phase,
          plan, batchStart, pc, resumePosition, attempts, rangeStart, sent, zombie,
          exists, chunkFile, totalDownloaded, output, mergeIndex, mergeStage,
          issued, responses, delays, exhaustedAt, reported, mergeInput,
          unlinked, faults, mergeFailure, outputCreated, aside>>

params == <<fileSize, threads, serversLen, retries, connectionsPerServer>>
fixed == <<params, plan>>
fetchState == <<pc, resumePosition, attempts, rangeStart, sent, zombie,
                totalDownloaded, issued, responses, delays, exhaustedAt, reported>>
fetchVars == <<fetchState, faults>>
mergeVars == <<output, mergeIndex, mergeStage, mergeInput, unlinked, mergeFailure,
              outputCreated>>

----------------------------------------------------------------------------
(* Bounds of the model. *)
MaxSize == 2
MaxChunks == 2
MaxConn == 2
MaxRetries == 1
\* faults injected into one transfer of several chunks
MaxFaults == 1
\* faults injected into one transfer of a single chunk
MaxFaultsSingle == 3
MaxStale == 1
\* the planner alone
PlanMaxSize == 8
PlanMaxThreads == 4
PlanMaxServers == 2
\* mergeChunks alone
MergeMaxChunks == 2
MergeMaxLen == 2
\* the throttle argument, in milliseconds
MaxThrottle == 1
\* the progress display: file size and advances of the clock
ProgressMaxSize == 3
MaxTicks == 3
\* downloadFile from its call: content-length, parallelServers, body length
FileMaxSize == 2
FileMaxServers == 2
FileMaxBody == 2
\* two transfers: chunks and bytes of each
TwinMaxChunks == 2
TwinMaxSize == 2

(* Program constants. *)
BackoffUnit == 1000
ResumeDelay == 5000
\* updateProgress: elapsedTimeSinceLastUpdate >= 1, in milliseconds
SampleInterval == 1000
\* updateProgress: currentTime - lastDetailedLogTime >= 180000
DetailedLogInterval == 180000

\* the exit code of a process that has not exited
Running == -1
\* fileSize when the header probe carries no content-length: null
UnknownSize == -1
\* probeStatus before the probe has ended, and after it failed with no response
NoResponse == 0
TransportFailure == -1

----------------------------------------------------------------------------
Min(a, b) == IF a <= b THEN a ELSE b

\* Math.ceil(a / b) for a >= 0, b >= 1
Ceil(a, b) == (a + b - 1) \div b

\* the bytes a..b of the source, in order (empty when b < a)
Bytes(a, b) == [k \in 1..(b - a + 1) |-> a + k - 1]

\* downloadPromises.length
NumChunks == threads * serversLen

Chunks == 0..(NumChunks - 1)

chunkSize == Ceil(fileSize, threads * serversLen)

\* const start = (serverIndex * threads + i) * chunkSize
PlanStart(serverIndex, i) == (serverIndex * threads + i) * chunkSize

\* the end of the range not cut at the end of the file
PlanEndUncut(serverIndex, i) == (serverIndex * threads + i + 1) * chunkSize - 1

\* const end = Math.min((serverIndex * threads + i + 1) * chunkSize - 1, fileSize - 1)
PlanEnd(serverIndex, i) ==
    Min((serverIndex * threads + i + 1) * chunkSize - 1, fileSize - 1)

\* the index of a chunk taken from the inner loop alone
ChunkIndexPerServer(serverIndex, i) == i

\* the index argument of downloadChunkWithResume: serverIndex * threads + i
ChunkIndex(serverIndex, i) == serverIndex * threads + i

\* this.sessionId, set once by the constructor
sessionId == "session"

\* joinPath(os.tmpdir(), `nexidyn_${this.sessionId}_chunk_${index}`)
getTempChunkPath(index) == <<"tmpdir", "nexidyn", sessionId, "chunk", index>>

\* the ids generateUniqueId gives the constructors of the process, in order
InstanceIds == <<sessionId, "session2">>

\* the Downloader instances of the process
Instances == 1..Len(InstanceIds)

\* this.sessionId of instance d
sessionIdOf(d) == InstanceIds[d]

\* getTempChunkPath(index) called on instance d
getTempChunkPathOf(d, index) == <<"tmpdir", "nexidyn", sessionIdOf(d), "chunk", index>>

\* the downloadFile calls of the process
Transfers == 1..2

\* the temp chunk file paths the transfers can name
TwinPaths == {getTempChunkPathOf(d, j) : d \in Instances, j \in 0..(TwinMaxChunks - 1)}

\* one downloadFile call only: no second transfer runs
NoTwin ==
    /\ instanceOf = [t \in Transfers |-> 1]
    /\ transferPhase = [t \in Transfers |-> "idle"]
    /\ unitPc = [t \in Transfers |-> <<>>]
    /\ unitSent = [t \in Transfers |-> <<>>]
    /\ tempFile = [f \in TwinPaths |-> <<>>]
    /\ tempExists = [f \in TwinPaths |-> FALSE]
    /\ transferMergeIndex = [t \in Transfers |-> 0]
    /\ transferOutput = [t \in Transfers |-> <<>>]
    /\ touchedBy = [f \in TwinPaths |-> {}]

(* The calls of downloadChunkWithResume in the order the two nested loops  *)
(* push them on downloadPromises: position p is thread p % threads of      *)
(* server p \div threads.                                                   *)
Plan ==
    [p \in Chunks |->
        [index  |-> ChunkIndex(p \div threads, p % threads),
         server |-> p \div threads,
         start  |-> PlanStart(p \div threads, p % threads),
         end    |-> PlanEnd(p \div threads, p % threads)]]

\* the start and end arguments of the fetch of chunk i
ChunkStart(i) == plan[i].start

ChunkEnd(i) == plan[i].end

\* the faults the environment may still inject
FaultLeft == faults < (IF NumChunks = 1 THEN MaxFaultsSingle ELSE MaxFaults)

\* fs.statSync(chunkFile).size
FileLen(i) == Len(chunkFile[i])

----------------------------------------------------------------------------
(* Initial states: downloadFile has resolved the file info and the server  *)
(* set and is about to plan. At most one temp chunk file of this session   *)
(* is left over from an earlier transfer of the same source.               *)

\* the lengths of the leftover temp chunk files: 0 is "no file"
StaleLens(size, cs, n) ==
    {[i \in 0..(n - 1) |-> 0]} \cup
    UNION {{[i \in 0..(n - 1) |-> IF i = j THEN l ELSE 0] :
               l \in {m \in 1..MaxStale : j * cs + m <= size}} : j \in 0..(n - 1)}

Arguments ==
    {a \in [size : 1..MaxSize, t : 1..MaxChunks, s : 1..MaxChunks,
            r : 0..MaxRetries, c : 1..MaxConn] : a.t * a.s <= MaxChunks}

InitWith(a, stale) ==
    /\ fileSize = a.size
    /\ threads = a.t
    /\ serversLen = a.s
    /\ retries = a.r
    /\ connectionsPerServer = a.c
    /\ phase = "plan"
    /\ plan = [i \in 0..(a.t * a.s - 1) |->
                 [index |-> i, server |-> 0, start |-> 0, end |-> -1]]
    /\ batchStart = 0
    /\ pc = [i \in 0..(a.t * a.s - 1) |-> "idle"]
    /\ resumePosition = [i \in 0..(a.t * a.s - 1) |-> 0]
    /\ attempts = [i \in 0..(a.t * a.s - 1) |-> 0]
    /\ rangeStart = [i \in 0..(a.t * a.s - 1) |-> 0]
    /\ sent = [i \in 0..(a.t * a.s - 1) |-> 0]
    /\ zombie = [i \in 0..(a.t * a.s - 1) |-> 0]
    /\ exists = [i \in 0..(a.t * a.s - 1) |-> stale[i] > 0]
    /\ chunkFile = [i \in 0..(a.t * a.s - 1) |->
                      Bytes(i * Ceil(a.size, a.t * a.s),
                            i * Ceil(a.size, a.t * a.s) + stale[i] - 1)]
    /\ totalDownloaded = 0
    /\ output = <<>>
    /\ mergeIndex = 0
    /\ mergeStage = "none"
    /\ issued = [i \in 0..(a.t * a.s - 1) |-> 0]
    /\ responses = [i \in 0..(a.t * a.s - 1) |-> 0]
    /\ delays = [i \in 0..(a.t * a.s - 1) |-> <<>>]
    /\ exhaustedAt = [i \in 0..(a.t * a.s - 1) |-> -1]
    /\ reported = [i \in 0..(a.t * a.s - 1) |-> 0]
    /\ mergeInput = [i \in 0..(a.t * a.s - 1) |-> <<>>]
    /\ unlinked = {}
    /\ faults = 0
    /\ mergeFailure = "none"
    /\ outputCreated = FALSE

\* the host name of the URL given, as its labels
fileUrl == <<"host">>

Letters == <<"a", "b", "c", "d", "e", "f", "g", "h", "i", "j", "k", "l", "m",
             "n", "o", "p", "q", "r", "s", "t", "u", "v", "w", "x", "y", "z">>

\* String.fromCharCode(c), for the codes of the small letters
FromCharCode(c) == Letters[c - 96]

\* every server URL with the first letter
ServerUrlFirstLetter(finalUrl, i) == <<FromCharCode(97)>> \o finalUrl

\* serverUrl.hostname = `${String.fromCharCode(97 + i)}.${parsedUrl.hostname}`
ServerUrl(finalUrl, i) == <<FromCharCode(97 + i)>> \o finalUrl

\* the array the loop of getParallelServers fills
ServerUrls(finalUrl, count) == [k \in 1..count |-> ServerUrl(finalUrl, k - 1)]

(* The main script, the resolvers, the progress display and the throttle   *)
(* when downloadFile is about to plan n chunks over s servers.             *)
AtPlanningOne(n, s, thr, dbg) ==
    /\ urlGiven = TRUE
    /\ exitCode = Running
    /\ probes = 1
    /\ probeStatus = 200
    /\ parallelServers = s
    /\ servers = IF s = 1 THEN <<fileUrl>> ELSE ServerUrls(fileUrl, s)
    /\ serverRequests = IF s = 1 THEN 0 ELSE 1
    /\ serversOutcome = IF s = 1 THEN "none" ELSE "ok"
    /\ responseUrl = IF s = 1 THEN <<>> ELSE fileUrl
    /\ plainRequests = 0
    /\ body = <<>>
    /\ debug = dbg
    /\ now = 0
    /\ ticks = 0
    /\ startTime = 0
    /\ lastUpdateTime = 0
    /\ lastDownloadedSize = 0
    /\ lastDetailedLogTime = 0
    /\ sampleTime = -1
    /\ sampleBytes = 0
    /\ samples = 0
    /\ speed = [bytes |-> 0, ms |-> 0]
    /\ fullLineTime = -1
    /\ fullLines = 0
    /\ throttle = thr
    /\ throttled = [i \in 0..(n - 1) |-> FALSE]
    /\ buffered = [i \in 0..(n - 1) |-> <<>>]

\* getFileInfo is not under way
NoName ==
    /\ urlSegment = <<>>
    /\ disposition = [present |-> FALSE]
    /\ contentType = <<>>
    /\ nameStage = "none"
    /\ filename = <<>>
    /\ extension = <<>>
    /\ fullFilename = <<>>

AtPlanning(n, s, thr, dbg) == AtPlanningOne(n, s, thr, dbg) /\ NoTwin /\ NoName

Init ==
    \E a \in Arguments :
        \E stale \in StaleLens(a.size, Ceil(a.size, a.t * a.s), a.t * a.s) :
            /\ InitWith(a, stale)
            /\ AtPlanning(a.t * a.s, a.s, 0, FALSE)

----------------------------------------------------------------------------
(* downloadChunkWithResume, up to its first await *)

\* resumePosition as computed on entry
InitialResume(i, start) == IF exists[i] THEN start + FileLen(i) ELSE start

\* while (resumePosition <= end)
LoopCond(pos, end) == pos <= end

\* the position downloadChunkWithResume passes to downloadChunk after a catch
ResumeAfterCatch(i) == resumePosition[i]

\* the attempt count carried over from the call of downloadChunk that threw
AttemptsCarried(i) == attempts[i]

\* let attempts = 0: the attempt count a call of downloadChunk starts with
AttemptsAtCall(i) == 0

(* downloadFile, from planning to the first await of the batch loop: the   *)
(* loop that fills downloadPromises calls downloadChunkWithResume for      *)
(* every chunk, and each call runs to the request of its downloadChunk.    *)
StartAll ==
    /\ phase = "plan"
    /\ phase' = "await"
    /\ plan' = Plan
    /\ batchStart' = 0
    /\ resumePosition' = [i \in Chunks |-> InitialResume(i, Plan[i].start)]
    /\ pc' = [i \in Chunks |->
                IF LoopCond(InitialResume(i, Plan[i].start), Plan[i].end)
                THEN "request" ELSE "done"]
    /\ rangeStart' = [i \in Chunks |-> InitialResume(i, Plan[i].start)]
    /\ attempts' = [i \in Chunks |-> 0]
    /\ issued' = [i \in Chunks |->
                    IF LoopCond(InitialResume(i, Plan[i].start), Plan[i].end)
                    THEN 1 ELSE 0]
    /\ startTime' = now
    /\ lastUpdateTime' = now
    /\ lastDownloadedSize' = 0
    /\ lastDetailedLogTime' = now
    /\ UNCHANGED <<params, responses, sent, zombie, exists, chunkFile, totalDownloaded,
                   delays, exhaustedAt, reported, faults, mergeVars, cliVars,
                   infoVars, debug, clock, progressHistory, throttleVars, writerVars, twinVars, nameVars>>

----------------------------------------------------------------------------
(* downloadChunk: the attempt loop *)

\* while (attempts <= retries) ... attempts++; if (attempts > retries) throw
Exhausted(n) == n > retries

\* sleep(1000 * attempts)
Backoff(n) == BackoffUnit * n

\* the bytes the live response of chunk i has still to deliver
Remaining(i) == ChunkEnd(i) - sent[i] + 1

(* The awaited request resolves with a response: the writer is created in  *)
(* append mode and the promise of the stream is returned.                  *)
RequestOk(i) ==
    /\ phase = "await"
    /\ pc[i] = "request"
    /\ pc' = [pc EXCEPT ![i] = "stream"]
    /\ exists' = [exists EXCEPT ![i] = TRUE]
    /\ sent' = [sent EXCEPT ![i] = rangeStart[i]]
    /\ responses' = [responses EXCEPT ![i] = @ + 1]
    /\ UNCHANGED <<fixed, aside, phase, batchStart, resumePosition, attempts, rangeStart,
                   zombie, chunkFile, totalDownloaded, issued, delays, exhaustedAt,
                   reported, faults, mergeVars>>

(* The awaited request throws and attempts remain: back off. *)
RequestFailRetry(i) ==
    /\ phase = "await"
    /\ pc[i] = "request"
    /\ FaultLeft
    /\ ~Exhausted(attempts[i] + 1)
    /\ attempts' = [attempts EXCEPT ![i] = @ + 1]
    /\ pc' = [pc EXCEPT ![i] = "backoff"]
    /\ delays' = [delays EXCEPT ![i] = Append(@, Backoff(attempts[i] + 1))]
    /\ faults' = faults + 1
    /\ UNCHANGED <<fixed, aside, phase, batchStart, resumePosition, rangeStart, sent,
                   zombie, exists, chunkFile, totalDownloaded, issued, responses, exhaustedAt,
                   reported, mergeVars>>

(* The awaited request throws and no attempt remains: downloadChunk throws *)
(* and the catch of downloadChunkWithResume takes the error and sleeps.    *)
RequestFailExhausted(i) ==
    /\ phase = "await"
    /\ pc[i] = "request"
    /\ FaultLeft
    /\ Exhausted(attempts[i] + 1)
    /\ attempts' = [attempts EXCEPT ![i] = @ + 1]
    /\ pc' = [pc EXCEPT ![i] = "lost"]
    /\ delays' = [delays EXCEPT ![i] = Append(@, ResumeDelay)]
    /\ exhaustedAt' = [exhaustedAt EXCEPT ![i] = IF @ = -1 THEN issued[i] ELSE @]
    /\ faults' = faults + 1
    /\ UNCHANGED <<fixed, aside, phase, batchStart, resumePosition, rangeStart, sent,
                   zombie, exists, chunkFile, totalDownloaded, issued, responses, reported,
                   mergeVars>>

\* every attempt of a call of downloadChunk restarted at the chunk start
RetryStartAtChunkStart(i) == ChunkStart(i)

\* Range: `bytes=${start}-${end}`, start being the parameter of downloadChunk
RetryStart(i) == rangeStart[i]

(* The back-off sleep is over: the loop issues the same request again. *)
BackoffDone(i) ==
    /\ phase = "await"
    /\ pc[i] = "backoff"
    /\ pc' = [pc EXCEPT ![i] = "request"]
    /\ rangeStart' = [rangeStart EXCEPT ![i] = RetryStart(i)]
    /\ issued' = [issued EXCEPT ![i] = @ + 1]
    /\ UNCHANGED <<fixed, aside, responses, phase, batchStart, resumePosition, attempts,
                   sent, zombie, exists, chunkFile, totalDownloaded, delays,
                   exhaustedAt, reported, faults, mergeVars>>

----------------------------------------------------------------------------
(* The progress callback of downloadFile and updateProgress *)

\* if (elapsedTimeSinceLastUpdate >= 1)
SampleDue(currentTime, lastUpdate) == currentTime - lastUpdate >= SampleInterval

\* if (this.debug || currentTime - lastDetailedLogTime >= 180000)
FullLine(currentTime, lastDetailed) ==
    debug \/ currentTime - lastDetailed >= DetailedLogInterval

(* updateProgress, called when totalDownloaded.size is total: a sample is  *)
(* computed and displayed, as a full line after console.clear() or over    *)
(* the current line. Its assignment to lastDetailedLogTime is to its own   *)
(* parameter.                                                              *)
updateProgress(total, lastUpdate, lastSize, lastDetailed) ==
    IF SampleDue(now, lastUpdate)
    THEN /\ samples' = samples + 1
         /\ sampleTime' = now
         /\ sampleBytes' = total
         /\ speed' = [bytes |-> total - lastSize, ms |-> now - lastUpdate]
         /\ IF FullLine(now, lastDetailed)
            THEN fullLines' = fullLines + 1 /\ fullLineTime' = now
            ELSE UNCHANGED <<fullLines, fullLineTime>>
    ELSE UNCHANGED progressHistory

\* the counter set to the size of the last increment
SizeOfLast(k) == k

\* totalDownloaded.size += chunkSize
Accumulated(k) == totalDownloaded + k

(* The callback downloadFile passes to every downloadChunkWithResume. *)
progressCallback(k) ==
    /\ totalDownloaded' = Accumulated(k)
    /\ updateProgress(Accumulated(k), lastUpdateTime, lastDownloadedSize,
                      lastDetailedLogTime)
    /\ lastUpdateTime' = now
    /\ lastDownloadedSize' = Accumulated(k)
    /\ UNCHANGED <<startTime, lastDetailedLogTime>>

\* if (throttle > 0) await this.sleep(throttle): a sleep of the handler starts
ThrottleSleep(i) == [throttled EXCEPT ![i] = throttle > 0]

----------------------------------------------------------------------------
(* downloadChunk: the handlers of the response stream and of the writer *)

\* writer.write(chunk): the bytes the writer of chunk i holds after it
Written(i, k) == buffered[i] \o Bytes(sent[i], sent[i] + k - 1)

(* 'data': k bytes are counted, reported and handed to the writer; the     *)
(* handler then sleeps if throttle > 0. The emitter of the event does not  *)
(* wait for the handler, so the event is handled whether or not an earlier *)
(* call of the handler is still asleep. Here the file system completes the *)
(* writes of the writer before the next event (DataBuffered is the event   *)
(* on a file system that does not).                                        *)
Data(i, k) ==
    /\ phase = "await"
    /\ pc[i] = "stream"
    /\ k \in 1..Remaining(i)
    /\ progressCallback(k)
    /\ reported' = [reported EXCEPT ![i] = @ + k]
    /\ chunkFile' = [chunkFile EXCEPT ![i] = @ \o Written(i, k)]
    /\ buffered' = [buffered EXCEPT ![i] = <<>>]
    /\ sent' = [sent EXCEPT ![i] = @ + k]
    /\ throttled' = ThrottleSleep(i)
    /\ UNCHANGED <<fixed, cliVars, infoVars, debug, clock, throttle, phase, batchStart, pc, resumePosition, attempts,
                   rangeStart, zombie, exists, issued, responses, delays, exhaustedAt, faults,
                   mergeVars, twinVars, nameVars>>

(* 'data', and the file system is slow: the handler returns, and later     *)
(* events are handled, while the bytes are still in the writer.            *)
DataBuffered(i, k) ==
    /\ phase = "await"
    /\ pc[i] = "stream"
    /\ k \in 1..Remaining(i)
    /\ FaultLeft
    /\ faults' = faults + 1
    /\ progressCallback(k)
    /\ reported' = [reported EXCEPT ![i] = @ + k]
    /\ buffered' = [buffered EXCEPT ![i] = Written(i, k)]
    /\ sent' = [sent EXCEPT ![i] = @ + k]
    /\ throttled' = ThrottleSleep(i)
    /\ UNCHANGED <<fixed, cliVars, infoVars, debug, clock, throttle, phase, batchStart, pc,
                   resumePosition, attempts, rangeStart, zombie, exists, chunkFile, issued,
                   responses, delays, exhaustedAt, mergeVars, twinVars, nameVars>>

(* The file system completes the writes of the writer of chunk i. The      *)
(* writer holds its own descriptor: bytes written after the path has been  *)
(* unlinked are in no file.                                                *)
WriteDone(i) ==
    /\ exitCode = Running
    /\ buffered[i] # <<>>
    /\ chunkFile' = [chunkFile EXCEPT ![i] = IF exists[i] THEN @ \o buffered[i] ELSE @]
    /\ buffered' = [buffered EXCEPT ![i] = <<>>]
    /\ UNCHANGED <<fixed, phase, batchStart, fetchVars, exists, mergeVars, cliVars,
                   infoVars, progressVars, throttleVars, twinVars, nameVars>>

(* 'end': the writer is ended, which does not wait for its writes, and the *)
(* promise resolves: downloadChunkWithResume breaks out of its loop and    *)
(* returns. A response that ends before the last byte of the range is a    *)
(* fault of the transport.                                                 *)
StreamEnd(i) ==
    /\ phase = "await"
    /\ pc[i] = "stream"
    /\ Remaining(i) = 0 \/ FaultLeft
    /\ faults' = IF Remaining(i) = 0 THEN faults ELSE faults + 1
    /\ pc' = [pc EXCEPT ![i] = "done"]
    /\ UNCHANGED <<fixed, aside, phase, batchStart, resumePosition, attempts, rangeStart,
                   sent, zombie, exists, chunkFile, totalDownloaded, issued, responses, delays,
                   exhaustedAt, reported, mergeVars>>

(* The writer emits 'error' on a write (the only handler that rejects the  *)
(* promise): the bytes written before stay in the file, those still in the *)
(* writer are dropped with it, and the catch of downloadChunkWithResume    *)
(* sleeps. The response is not destroyed and its handlers stay attached.   *)
WriterError(i) ==
    /\ phase = "await"
    /\ pc[i] = "stream"
    /\ Remaining(i) > 0
    /\ FaultLeft
    /\ zombie' = [zombie EXCEPT ![i] = @ + Remaining(i)]
    /\ pc' = [pc EXCEPT ![i] = "lost"]
    /\ delays' = [delays EXCEPT ![i] = Append(@, ResumeDelay)]
    /\ faults' = faults + 1
    /\ buffered' = [buffered EXCEPT ![i] = <<>>]
    /\ UNCHANGED <<fixed, cliVars, infoVars, progressVars, throttleVars, phase, batchStart, resumePosition, attempts, rangeStart,
                   sent, exists, chunkFile, totalDownloaded, issued, responses, exhaustedAt,
                   reported, mergeVars, twinVars, nameVars>>

(* 'data' of a response whose writer has failed: the bytes are reported,   *)
(* the write to the destroyed writer is dropped.                           *)
ZombieData(i, k) ==
    /\ exitCode = Running
    /\ k \in 1..zombie[i]
    /\ progressCallback(k)
    /\ reported' = [reported EXCEPT ![i] = @ + k]
    /\ zombie' = [zombie EXCEPT ![i] = @ - k]
    /\ throttled' = ThrottleSleep(i)
    /\ UNCHANGED <<fixed, cliVars, infoVars, debug, clock, throttle, phase, batchStart, pc, resumePosition, attempts,
                   rangeStart, sent, exists, chunkFile, issued, responses, delays, exhaustedAt,
                   faults, mergeVars, writerVars, twinVars, nameVars>>

(* The connection drops mid-stream: the response is aborted, it has no     *)
(* 'error' handler and 'end' never comes, so the promise never settles.    *)
StreamStall(i) ==
    /\ phase = "await"
    /\ pc[i] = "stream"
    /\ Remaining(i) > 0
    /\ FaultLeft
    /\ pc' = [pc EXCEPT ![i] = "stalled"]
    /\ faults' = faults + 1
    /\ UNCHANGED <<fixed, aside, phase, batchStart, resumePosition, attempts, rangeStart,
                   sent, zombie, exists, chunkFile, totalDownloaded, issued, responses, delays,
                   exhaustedAt, reported, mergeVars>>

(* The sleep of the data handler of chunk i that was started last is      *)
(* over: the handler returns.                                              *)
ThrottleDone(i) ==
    /\ exitCode = Running
    /\ throttled[i]
    /\ throttled' = [throttled EXCEPT ![i] = FALSE]
    /\ UNCHANGED <<fixed, phase, batchStart, fetchVars, exists, chunkFile, mergeVars,
                   cliVars, infoVars, progressVars, throttle, writerVars, twinVars, nameVars>>

----------------------------------------------------------------------------
(* downloadChunkWithResume: after the catch *)

(* sleep(5000) is over: the while condition is evaluated again and         *)
(* downloadChunk is called anew, with a fresh attempt count.               *)
LostDone(i) ==
    /\ phase = "await"
    /\ pc[i] = "lost"
    /\ IF LoopCond(ResumeAfterCatch(i), ChunkEnd(i))
       THEN /\ pc' = [pc EXCEPT ![i] = "request"]
            /\ rangeStart' = [rangeStart EXCEPT ![i] = ResumeAfterCatch(i)]
            /\ attempts' = [attempts EXCEPT ![i] = AttemptsAtCall(i)]
            /\ issued' = [issued EXCEPT ![i] = @ + 1]
       ELSE /\ pc' = [pc EXCEPT ![i] = "done"]
            /\ UNCHANGED <<rangeStart, attempts, issued>>
    /\ resumePosition' = [resumePosition EXCEPT ![i] = ResumeAfterCatch(i)]
    /\ UNCHANGED <<fixed, aside, responses, phase, batchStart, sent, zombie, exists, chunkFile,
                   totalDownloaded, delays, exhaustedAt, reported, faults, mergeVars>>

----------------------------------------------------------------------------
(* downloadFile: the batch loop *)

\* downloadPromises.slice(i, i + connectionsPerServer)
Batch(i) == {j \in Chunks : i <= j /\ j < i + connectionsPerServer}

\* the batch awaited with Promise.race: one of its fetches has returned
BatchRaced(i) == \E j \in Batch(i) : pc[j] = "done"

\* Promise.all(batch) resolves
BatchResolved(i) == \A j \in Batch(i) : pc[j] = "done"

(* The awaited batch resolves and another batch is left to await. *)
BatchNext ==
    /\ phase = "await"
    /\ BatchResolved(batchStart)
    /\ batchStart + connectionsPerServer < NumChunks
    /\ batchStart' = batchStart + connectionsPerServer
    /\ UNCHANGED <<fixed, aside, phase, fetchVars, exists, chunkFile, mergeVars>>

(* The last awaited batch resolves: mergeChunks is called, creates the     *)
(* writer of the output file and the reader of chunk 0.                    *)
BatchLast ==
    /\ phase = "await"
    /\ BatchResolved(batchStart)
    /\ batchStart + connectionsPerServer >= NumChunks
    /\ batchStart' = batchStart + connectionsPerServer
    /\ phase' = "merge"
    /\ output' = <<>>
    /\ mergeIndex' = 0
    /\ mergeStage' = "open"
    /\ mergeInput' = chunkFile
    /\ outputCreated' = TRUE
    /\ UNCHANGED <<fixed, aside, fetchVars, exists, chunkFile, unlinked, mergeFailure>>

----------------------------------------------------------------------------
(* mergeChunks *)

\* the temp files read in descending index order
MergeSourceDescending(i) == NumChunks - 1 - i

\* the temp files read in ascending order from the last one round
MergeSourceFromLast(i) == (i + NumChunks - 1) % NumChunks

\* the chunk whose temp file the i-th iteration reads: getTempChunkPath(i)
MergeSource(i) == i

\* reader.pipe(writer, { end: false }): the output after the data of a reader
Piped(out, data) == out \o data

\* the temp file unlinked as soon as its reader is created
ReaderEndedOrOpen == mergeStage \in {"open", "piped"}

\* the reader has emitted 'end'
ReaderEnded == mergeStage = "piped"

(* The reader of the current chunk delivers the whole temp file. *)
MergeRead ==
    /\ phase = "merge"
    /\ mergeStage = "open"
    /\ exists[MergeSource(mergeIndex)]
    /\ output' = Piped(output, chunkFile[MergeSource(mergeIndex)])
    /\ mergeStage' = "piped"
    /\ UNCHANGED <<fixed, aside, phase, batchStart, fetchVars, exists, chunkFile,
                   mergeIndex, mergeInput, unlinked, mergeFailure, outputCreated>>

(* The reader emits 'error' (the temp file does not exist): mergeChunks    *)
(* rejects and downloadFile rethrows.                                      *)
MergeReadError ==
    /\ phase = "merge"
    /\ mergeStage = "open"
    /\ ~exists[MergeSource(mergeIndex)]
    /\ phase' = "rejected"
    /\ mergeFailure' = "read"
    /\ UNCHANGED <<fixed, aside, batchStart, fetchVars, exists, chunkFile, output,
                   mergeIndex, mergeStage, mergeInput, unlinked, outputCreated>>

(* 'end' of the reader: the temp file is unlinked; then either the next    *)
(* reader is created, or the writer is ended and downloadFile resolves.    *)
MergeEnd ==
    /\ phase = "merge"
    /\ ReaderEnded
    /\ exists' = [exists EXCEPT ![MergeSource(mergeIndex)] = FALSE]
    /\ chunkFile' = [chunkFile EXCEPT ![MergeSource(mergeIndex)] = <<>>]
    /\ unlinked' = unlinked \cup {MergeSource(mergeIndex)}
    /\ mergeIndex' = mergeIndex + 1
    /\ IF mergeIndex + 1 < NumChunks
       THEN mergeStage' = "open" /\ phase' = phase
       ELSE mergeStage' = "closed" /\ phase' = "resolved"
    /\ UNCHANGED <<fixed, aside, batchStart, fetchVars, output, mergeInput,
                   mergeFailure, outputCreated>>

(* 'end' of the reader, and fs.unlinkSync throws: the exception leaves the *)
(* event handler, so resolve() is not called and nothing rejects the       *)
(* promise mergeChunks awaits: it is an uncaught exception of the process. *)
MergeUnlinkError ==
    /\ phase = "merge"
    /\ ReaderEnded
    /\ FaultLeft
    /\ faults' = faults + 1
    /\ phase' = "uncaught"
    /\ mergeFailure' = "unlink"
    /\ UNCHANGED <<fixed, aside, batchStart, fetchState, exists, chunkFile, output,
                   mergeIndex, mergeStage, mergeInput, unlinked, outputCreated>>

----------------------------------------------------------------------------
(* The main script, after its call of downloadFile *)

(* downloadFile has resolved: the script has nothing left to run and the   *)
(* process ends.                                                           *)
MainDone ==
    /\ phase = "resolved"
    /\ exitCode = Running
    /\ exitCode' = 0
    /\ UNCHANGED <<fixed, phase, batchStart, fetchVars, exists, chunkFile, mergeVars,
                   urlGiven, infoVars, progressVars, throttleVars, writerVars, twinVars, nameVars>>

(* .catch((err) => { ...; process.exit(1) }) *)
MainCatch ==
    /\ phase = "rejected"
    /\ exitCode = Running
    /\ exitCode' = 1
    /\ UNCHANGED <<fixed, phase, batchStart, fetchVars, exists, chunkFile, mergeVars,
                   urlGiven, infoVars, progressVars, throttleVars, writerVars, twinVars, nameVars>>

(* An exception no handler takes ends the process with code 1. *)
UncaughtException ==
    /\ phase = "uncaught"
    /\ exitCode = Running
    /\ exitCode' = 1
    /\ UNCHANGED <<fixed, phase, batchStart, fetchVars, exists, chunkFile, mergeVars,
                   urlGiven, infoVars, progressVars, throttleVars, writerVars, twinVars, nameVars>>

----------------------------------------------------------------------------
Next ==
    \/ StartAll
    \/ \E i \in Chunks : RequestOk(i)
    \/ \E i \in Chunks : RequestFailRetry(i)
    \/ \E i \in Chunks : RequestFailExhausted(i)
    \/ \E i \in Chunks : BackoffDone(i)
    \/ \E i \in Chunks : \E k \in 1..MaxSize : Data(i, k)
    \/ \E i \in Chunks : StreamEnd(i)
    \/ \E i \in Chunks : WriterError(i)
    \/ \E i \in Chunks : \E k \in 1..MaxSize : ZombieData(i, k)
    \/ \E i \in Chunks : StreamStall(i)
    \/ \E i \in Chunks : LostDone(i)
    \/ BatchNext
    \/ BatchLast
    \/ MergeRead
    \/ MergeReadError
    \/ MergeEnd
    \/ MergeUnlinkError
    \/ MainDone
    \/ MainCatch
    \/ UncaughtException

Spec == Init /\ [][Next]_vars

(* The same transfer on a file system that may complete the writes of a    *)
(* chunk's writer later than the events that follow them.                  *)
NextWriter ==
    \/ Next
    \/ \E i \in Chunks : \E k \in 1..MaxSize : DataBuffered(i, k)
    \/ \E i \in Chunks : WriteDone(i)

SpecWriter == Init /\ [][NextWriter]_vars

(* The same transfer under the scheduling of the event loop: a callback    *)
(* that is ready to run (a timer that has expired, a settled promise, an   *)
(* event of a stream) is run, so the transfer does not stop while a step   *)
(* of it is possible.                                                      *)
SpecLive == Init /\ [][Next]_vars /\ WF_vars(Next)

----------------------------------------------------------------------------
(* The planner alone, over a wider range of sizes, threads and servers:    *)
(* downloadFile up to the first await of its batch loop.                   *)

\* the file sizes of the scenarios of the chunk planner
ScenarioSizes == {10, 1000}

InitPlan ==
    \E size \in (1..PlanMaxSize) \cup ScenarioSizes, t \in 1..PlanMaxThreads, sv \in 1..PlanMaxServers :
        /\ InitWith([size |-> size, t |-> t, s |-> sv, r |-> 0, c |-> 1],
                    [i \in 0..(t * sv - 1) |-> 0])
        /\ AtPlanning(t * sv, sv, 0, FALSE)

NextPlan == StartAll

SpecPlan == InitPlan /\ [][NextPlan]_vars

----------------------------------------------------------------------------
(* mergeChunks alone, called on temp chunk files of any content: the state *)
(* after it has created the writer and the reader of chunk 0. Here phase   *)
(* is the state of the promise of mergeChunks.                             *)

FileContents == UNION {[1..n -> {0, 1}] : n \in 0..MergeMaxLen}

InitMerge ==
    \E n \in 1..MergeMaxChunks :
        \E files \in [0..(n - 1) -> FileContents], present \in [0..(n - 1) -> BOOLEAN] :
            /\ \A i \in 0..(n - 1) : present[i] \/ files[i] = <<>>
            /\ fileSize = 1
            /\ threads = n
            /\ serversLen = 1
            /\ retries = 0
            /\ connectionsPerServer = 1
            /\ phase = "merge"
            /\ plan = [i \in 0..(n - 1) |->
                         [index |-> i, server |-> 0, start |-> 0, end |-> -1]]
            /\ batchStart = 0
            /\ pc = [i \in 0..(n - 1) |-> "idle"]
            /\ resumePosition = [i \in 0..(n - 1) |-> 0]
            /\ attempts = [i \in 0..(n - 1) |-> 0]
            /\ rangeStart = [i \in 0..(n - 1) |-> 0]
            /\ sent = [i \in 0..(n - 1) |-> 0]
            /\ zombie = [i \in 0..(n - 1) |-> 0]
            /\ exists = present
            /\ chunkFile = files
            /\ totalDownloaded = 0
            /\ output = <<>>
            /\ mergeIndex = 0
            /\ mergeStage = "open"
            /\ issued = [i \in 0..(n - 1) |-> 0]
            /\ responses = [i \in 0..(n - 1) |-> 0]
            /\ delays = [i \in 0..(n - 1) |-> <<>>]
            /\ exhaustedAt = [i \in 0..(n - 1) |-> -1]
            /\ reported = [i \in 0..(n - 1) |-> 0]
            /\ mergeInput = files
            /\ unlinked = {}
            /\ faults = 0
            /\ mergeFailure = "none"
            /\ outputCreated = TRUE
            /\ AtPlanning(n, 1, 0, FALSE)

NextMerge == MergeRead \/ MergeReadError \/ MergeEnd \/ MergeUnlinkError

SpecMerge == InitMerge /\ [][NextMerge]_vars

----------------------------------------------------------------------------
(* The main script and downloadFile up to planning: getFileInfo, the       *)
(* output path, downloadWithoutChunking and getParallelServers.            *)

frontFixed == <<threads, retries, connectionsPerServer, plan, batchStart, fetchVars,
                exists, chunkFile, mergeIndex, mergeStage, mergeInput, unlinked,
                mergeFailure, progressVars, throttleVars, writerVars, twinVars, nameVars,
                urlGiven,
                parallelServers>>
resolution == <<servers, serversLen, serversOutcome, responseUrl>>

\* validateStatus: function (status) { return status < 500; }
validateStatus(status) == status < 500

\* any response is taken as the file info
StatusAcceptedAlways(status) == TRUE

\* axios resolves with the response and response.status === 200
StatusAccepted(status) == validateStatus(status) /\ status = 200

\* chunking whatever the size
WithoutChunkingNever(size) == FALSE

\* if (fileSize === null)
WithoutChunking(size) == size = UnknownSize

\* the array getParallelServers returns; outcome and url are those of its request
getParallelServers(count, outcome, url) ==
    IF count <= 1
    THEN <<fileUrl>>
    ELSE IF outcome = "ok" THEN ServerUrls(url, count) ELSE <<fileUrl>>

(* if (!fileUrl) { showHelp(); process.exit(1) } *)
MainNoUrl ==
    /\ phase = "main"
    /\ exitCode = Running
    /\ ~urlGiven
    /\ exitCode' = 1
    /\ UNCHANGED <<frontFixed, phase, fileSize, infoVars, serversLen, output,
                   outputCreated>>

(* downloadFile is called and getFileInfo issues the header probe. *)
MainCall ==
    /\ phase = "main"
    /\ exitCode = Running
    /\ urlGiven
    /\ phase' = "probe"
    /\ probes' = probes + 1
    /\ UNCHANGED <<frontFixed, exitCode, fileSize, probeStatus, resolution,
                   serverRequests, plainRequests, body, output, outputCreated>>

(* downloadFile once getFileInfo has returned a file of this size: the     *)
(* output path is resolved and its directory made (pathOk: nothing there   *)
(* throws); then the un-ranged request is issued, or getParallelServers is *)
(* called, which returns at once or issues its request.                    *)
AfterFileInfo(size, pathOk) ==
    /\ fileSize' = size
    /\ IF ~pathOk
       THEN /\ phase' = "rejected"
            /\ UNCHANGED <<plainRequests, serverRequests, resolution>>
       ELSE IF WithoutChunking(size)
       THEN /\ phase' = "plain"
            /\ plainRequests' = plainRequests + 1
            /\ UNCHANGED <<serverRequests, resolution>>
       ELSE IF parallelServers <= 1
       THEN /\ phase' = "plan"
            /\ servers' = getParallelServers(parallelServers, "none", <<>>)
            /\ serversLen' = Len(servers')
            /\ UNCHANGED <<serversOutcome, responseUrl, plainRequests, serverRequests>>
       ELSE /\ phase' = "servers"
            /\ serverRequests' = serverRequests + 1
            /\ UNCHANGED <<plainRequests, resolution>>

(* The header probe fails with no response: getFileInfo throws and         *)
(* downloadFile rethrows.                                                  *)
ProbeTransportFailure ==
    /\ phase = "probe"
    /\ probeStatus' = TransportFailure
    /\ phase' = "rejected"
    /\ UNCHANGED <<frontFixed, exitCode, fileSize, probes, resolution, serverRequests,
                   plainRequests, body, output, outputCreated>>

(* The header probe is answered with this status and content-length        *)
(* (UnknownSize: no such header). sniff: no extension comes from the URL   *)
(* or the headers, so getFileInfo requests the content.                    *)
ProbeResponse(status, size, sniff, pathOk) ==
    /\ phase = "probe"
    /\ probeStatus' = status
    /\ IF ~StatusAccepted(status)
       THEN /\ phase' = "rejected"
            /\ UNCHANGED <<fileSize, plainRequests, serverRequests, resolution>>
       ELSE IF sniff
       THEN /\ phase' = "sniff"
            /\ fileSize' = size
            /\ UNCHANGED <<plainRequests, serverRequests, resolution>>
       ELSE AfterFileInfo(size, pathOk)
    /\ UNCHANGED <<frontFixed, exitCode, probes, body, output, outputCreated>>

(* The content request of getFileInfo is answered. *)
SniffResponse(pathOk) ==
    /\ phase = "sniff"
    /\ AfterFileInfo(fileSize, pathOk)
    /\ UNCHANGED <<frontFixed, exitCode, probes, probeStatus, body, output,
                   outputCreated>>

(* The content request of getFileInfo fails. *)
SniffFail ==
    /\ phase = "sniff"
    /\ phase' = "rejected"
    /\ UNCHANGED <<frontFixed, exitCode, fileSize, infoVars, serversLen, output,
                   outputCreated>>

(* The request of getParallelServers is answered, after redirects, from    *)
(* url: the server URLs are made from it.                                  *)
ServersResponse(url) ==
    /\ phase = "servers"
    /\ serversOutcome' = "ok"
    /\ responseUrl' = url
    /\ servers' = getParallelServers(parallelServers, "ok", url)
    /\ serversLen' = Len(servers')
    /\ phase' = "plan"
    /\ UNCHANGED <<frontFixed, exitCode, fileSize, probes, probeStatus, serverRequests,
                   plainRequests, body, output, outputCreated>>

(* The request of getParallelServers fails: the catch returns the URL      *)
(* given.                                                                  *)
ServersFail ==
    /\ phase = "servers"
    /\ serversOutcome' = "failed"
    /\ servers' = getParallelServers(parallelServers, "failed", <<>>)
    /\ serversLen' = Len(servers')
    /\ phase' = "plan"
    /\ UNCHANGED <<frontFixed, exitCode, fileSize, probes, probeStatus, serverRequests,
                   responseUrl, plainRequests, body, output, outputCreated>>

(* downloadWithoutChunking: the un-ranged request is answered with a       *)
(* response of this body; the writer of the output file is created and the *)
(* response piped to it.                                                   *)
PlainResponse(b) ==
    /\ phase = "plain"
    /\ body' = b
    /\ output' = <<>>
    /\ outputCreated' = TRUE
    /\ phase' = "pipe"
    /\ UNCHANGED <<frontFixed, exitCode, fileSize, probes, probeStatus, resolution,
                   serverRequests, plainRequests>>

(* The un-ranged request fails: downloadWithoutChunking throws. *)
PlainFail ==
    /\ phase = "plain"
    /\ phase' = "rejected"
    /\ UNCHANGED <<frontFixed, exitCode, fileSize, infoVars, serversLen, output,
                   outputCreated>>

\* the bytes of the response not yet piped to the writer
Unpiped == Len(body) - Len(output)

(* The pipe hands the next k bytes of the response to the writer. *)
PipeData(k) ==
    /\ phase = "pipe"
    /\ k \in 1..Unpiped
    /\ output' = Piped(output, SubSeq(body, Len(output) + 1, Len(output) + k))
    /\ UNCHANGED <<frontFixed, phase, exitCode, fileSize, infoVars, serversLen,
                   outputCreated>>

(* The response has ended and the pipe has ended the writer: 'finish'. *)
PipeFinish ==
    /\ phase = "pipe"
    /\ Unpiped = 0
    /\ phase' = "resolved"
    /\ UNCHANGED <<frontFixed, exitCode, fileSize, infoVars, serversLen, output,
                   outputCreated>>

(* 'error' of the writer. *)
PipeWriterError ==
    /\ phase = "pipe"
    /\ phase' = "rejected"
    /\ UNCHANGED <<frontFixed, exitCode, fileSize, infoVars, serversLen, output,
                   outputCreated>>

(* The connection drops before the response has ended: the pipe does not   *)
(* end the writer, and neither 'finish' nor 'error' of the writer comes.   *)
PipeStall ==
    /\ phase = "pipe"
    /\ Unpiped > 0
    /\ phase' = "stalled"
    /\ UNCHANGED <<frontFixed, exitCode, fileSize, infoVars, serversLen, output,
                   outputCreated>>

----------------------------------------------------------------------------
(* The main script from its start, with one thread per server and a chunk  *)
(* transport that answers every ranged request.                            *)

\* the statuses of the answers to the header probe
Statuses == {200, 204, 404, 503}

\* the content-length of the answer to the header probe
ContentLengths == {UnknownSize} \cup 0..FileMaxSize

\* the bodies of the un-ranged response
Bodies == UNION {[1..n -> {0, 1}] : n \in 0..FileMaxBody}

\* the hosts that answer the request of getParallelServers
ResponseUrls == {fileUrl, <<"mirror">>}

\* the indices of the temp chunk files a transfer over p servers can use
TempFiles(p) == 0..((IF p <= 1 THEN 1 ELSE p) - 1)

InitFile ==
    \E given \in BOOLEAN, p \in 0..FileMaxServers, c \in 1..MaxConn :
        /\ urlGiven = given
        /\ exitCode = Running
        /\ phase = "main"
        /\ fileSize = UnknownSize
        /\ threads = 1
        /\ serversLen = 0
        /\ retries = 0
        /\ connectionsPerServer = c
        /\ parallelServers = p
        /\ probes = 0
        /\ probeStatus = NoResponse
        /\ servers = <<>>
        /\ serverRequests = 0
        /\ serversOutcome = "none"
        /\ responseUrl = <<>>
        /\ plainRequests = 0
        /\ body = <<>>
        /\ plan = [i \in TempFiles(p) |->
                     [index |-> i, server |-> 0, start |-> 0, end |-> -1]]
        /\ batchStart = 0
        /\ pc = [i \in TempFiles(p) |-> "idle"]
        /\ resumePosition = [i \in TempFiles(p) |-> 0]
        /\ attempts = [i \in TempFiles(p) |-> 0]
        /\ rangeStart = [i \in TempFiles(p) |-> 0]
        /\ sent = [i \in TempFiles(p) |-> 0]
        /\ zombie = [i \in TempFiles(p) |-> 0]
        /\ exists = [i \in TempFiles(p) |-> FALSE]
        /\ chunkFile = [i \in TempFiles(p) |-> <<>>]
        /\ totalDownloaded = 0
        /\ output = <<>>
        /\ mergeIndex = 0
        /\ mergeStage = "none"
        /\ issued = [i \in TempFiles(p) |-> 0]
        /\ responses = [i \in TempFiles(p) |-> 0]
        /\ delays = [i \in TempFiles(p) |-> <<>>]
        /\ exhaustedAt = [i \in TempFiles(p) |-> -1]
        /\ reported = [i \in TempFiles(p) |-> 0]
        /\ mergeInput = [i \in TempFiles(p) |-> <<>>]
        /\ unlinked = {}
        /\ faults = 0
        /\ mergeFailure = "none"
        /\ outputCreated = FALSE
        /\ debug = FALSE
        /\ now = 0
        /\ ticks = 0
        /\ startTime = 0
        /\ lastUpdateTime = 0
        /\ lastDownloadedSize = 0
        /\ lastDetailedLogTime = 0
        /\ sampleTime = -1
        /\ sampleBytes = 0
        /\ samples = 0
        /\ speed = [bytes |-> 0, ms |-> 0]
        /\ fullLineTime = -1
        /\ fullLines = 0
        /\ throttle = 0
        /\ throttled = [i \in TempFiles(p) |-> FALSE]
        /\ buffered = [i \in TempFiles(p) |-> <<>>]
        /\ NoTwin
        /\ NoName

NextFile ==
    \/ MainNoUrl
    \/ MainCall
    \/ ProbeTransportFailure
    \/ \E status \in Statuses, size \in ContentLengths, sniff \in BOOLEAN,
          pathOk \in BOOLEAN : ProbeResponse(status, size, sniff, pathOk)
    \/ \E pathOk \in BOOLEAN : SniffResponse(pathOk)
    \/ SniffFail
    \/ \E url \in ResponseUrls : ServersResponse(url)
    \/ ServersFail
    \/ \E b \in Bodies : PlainResponse(b)
    \/ PlainFail
    \/ \E k \in 1..FileMaxBody : PipeData(k)
    \/ PipeFinish
    \/ PipeWriterError
    \/ PipeStall
    \/ StartAll
    \/ \E i \in Chunks : RequestOk(i)
    \/ \E i \in Chunks : \E k \in 1..FileMaxSize : Data(i, k)
    \/ \E i \in Chunks : StreamEnd(i)
    \/ BatchNext
    \/ BatchLast
    \/ MergeRead
    \/ MergeReadError
    \/ MergeEnd
    \/ MainDone
    \/ MainCatch

SpecFile == InitFile /\ [][NextFile]_vars

----------------------------------------------------------------------------
(* downloadFile called with a throttle, from planning on. *)

InitThrottle ==
    \E a \in Arguments, thr \in 0..MaxThrottle :
        \E stale \in StaleLens(a.size, Ceil(a.size, a.t * a.s), a.t * a.s) :
            /\ InitWith(a, stale)
            /\ AtPlanning(a.t * a.s, a.s, thr, FALSE)

NextThrottle ==
    \/ Next
    \/ \E i \in Chunks : ThrottleDone(i)

SpecThrottle == InitThrottle /\ [][NextThrottle]_vars

----------------------------------------------------------------------------
(* The progress display of a transfer of one chunk, with a clock. *)

\* the milliseconds by which the clock advances between two events
ClockSteps == {600, 1000, 180000}

(* Time passes while downloadFile plans or awaits. *)
Tick(dt) ==
    /\ exitCode = Running
    /\ phase \in {"plan", "await"}
    /\ ticks < MaxTicks
    /\ now' = now + dt
    /\ ticks' = ticks + 1
    /\ UNCHANGED <<fixed, phase, batchStart, fetchVars, exists, chunkFile, mergeVars,
                   cliVars, infoVars, debug, progressLocals, progressHistory,
                   throttleVars, writerVars, twinVars, nameVars>>

InitProgress ==
    \E size \in 1..ProgressMaxSize, dbg \in BOOLEAN :
        /\ InitWith([size |-> size, t |-> 1, s |-> 1, r |-> 0, c |-> 1], [i \in {0} |-> 0])
        /\ AtPlanning(1, 1, 0, dbg)

NextProgress ==
    \/ \E dt \in ClockSteps : Tick(dt)
    \/ StartAll
    \/ \E i \in Chunks : RequestOk(i)
    \/ \E i \in Chunks : \E k \in 1..ProgressMaxSize : Data(i, k)
    \/ \E i \in Chunks : StreamEnd(i)

SpecProgress == InitProgress /\ [][NextProgress]_vars

----------------------------------------------------------------------------
(* Two downloadFile calls running at once in one process, on the same      *)
(* Downloader instance or on two, each for a file of fileSize bytes in     *)
(* threads chunks on a transport without faults. A byte is written <<t, o>>:*)
(* offset o of the source of transfer t.                                   *)

\* chunkFile of chunk j of transfer t
PathOf(t, j) == getTempChunkPathOf(instanceOf[t], j)

\* the state of the first transfer's own model, which does not move here
single == <<fixed, phase, batchStart, fetchVars, exists, chunkFile, mergeVars, cliVars,
            infoVars, progressVars, throttleVars, writerVars, nameVars>>

\* resumePosition of chunk j of transfer t on entry to downloadChunkWithResume
TwinResume(t, j) ==
    PlanStart(0, j) + (IF tempExists[PathOf(t, j)] THEN Len(tempFile[PathOf(t, j)]) ELSE 0)

(* downloadFile of transfer t plans and calls downloadChunkWithResume for  *)
(* every chunk.                                                            *)
TwinStart(t) ==
    /\ transferPhase[t] = "idle"
    /\ transferPhase' = [transferPhase EXCEPT ![t] = "await"]
    /\ unitSent' = [unitSent EXCEPT ![t] = [j \in Chunks |-> TwinResume(t, j)]]
    /\ unitPc' = [unitPc EXCEPT ![t] =
                     [j \in Chunks |->
                         IF LoopCond(TwinResume(t, j), PlanEnd(0, j))
                         THEN "request" ELSE "done"]]
    /\ UNCHANGED <<single, instanceOf, tempFile, tempExists, transferMergeIndex,
                   transferOutput, touchedBy>>

(* The request of chunk j of transfer t is answered: its writer is created *)
(* in append mode, which creates the file if there is none.                *)
TwinResponse(t, j) ==
    /\ transferPhase[t] = "await"
    /\ unitPc[t][j] = "request"
    /\ unitPc' = [unitPc EXCEPT ![t][j] = "stream"]
    /\ tempExists' = [tempExists EXCEPT ![PathOf(t, j)] = TRUE]
    /\ touchedBy' = [touchedBy EXCEPT ![PathOf(t, j)] = @ \cup {t}]
    /\ UNCHANGED <<single, instanceOf, transferPhase, unitSent, tempFile,
                   transferMergeIndex, transferOutput>>

(* 'data' of chunk j of transfer t: one byte is written. A writer whose    *)
(* path has been unlinked writes to a file no path names.                  *)
TwinData(t, j) ==
    /\ transferPhase[t] = "await"
    /\ unitPc[t][j] = "stream"
    /\ unitSent[t][j] <= PlanEnd(0, j)
    /\ unitSent' = [unitSent EXCEPT ![t][j] = @ + 1]
    /\ IF tempExists[PathOf(t, j)]
       THEN /\ tempFile' = [tempFile EXCEPT ![PathOf(t, j)] =
                               Append(@, <<t, unitSent[t][j]>>)]
            /\ touchedBy' = [touchedBy EXCEPT ![PathOf(t, j)] = @ \cup {t}]
       ELSE UNCHANGED <<tempFile, touchedBy>>
    /\ UNCHANGED <<single, instanceOf, transferPhase, unitPc, tempExists,
                   transferMergeIndex, transferOutput>>

(* 'end' of the response of chunk j of transfer t. *)
TwinEnd(t, j) ==
    /\ transferPhase[t] = "await"
    /\ unitPc[t][j] = "stream"
    /\ unitSent[t][j] > PlanEnd(0, j)
    /\ unitPc' = [unitPc EXCEPT ![t][j] = "done"]
    /\ UNCHANGED <<single, instanceOf, transferPhase, unitSent, tempFile, tempExists,
                   transferMergeIndex, transferOutput, touchedBy>>

(* Every batch of transfer t has resolved: its mergeChunks is called. *)
TwinMergeStart(t) ==
    /\ transferPhase[t] = "await"
    /\ \A j \in Chunks : unitPc[t][j] = "done"
    /\ transferPhase' = [transferPhase EXCEPT ![t] = "merge"]
    /\ transferMergeIndex' = [transferMergeIndex EXCEPT ![t] = 0]
    /\ UNCHANGED <<single, instanceOf, unitPc, unitSent, tempFile, tempExists,
                   transferOutput, touchedBy>>

(* One iteration of the loop of mergeChunks of transfer t: the temp file   *)
(* of the current index is read to its end, piped and unlinked; its reader *)
(* emits 'error' when there is no such file.                               *)
TwinMergeChunk(t) ==
    /\ transferPhase[t] = "merge"
    /\ IF tempExists[PathOf(t, transferMergeIndex[t])]
       THEN /\ transferOutput' = [transferOutput EXCEPT ![t] =
                   Piped(@, tempFile[PathOf(t, transferMergeIndex[t])])]
            /\ tempFile' = [tempFile EXCEPT ![PathOf(t, transferMergeIndex[t])] = <<>>]
            /\ tempExists' = [tempExists EXCEPT ![PathOf(t, transferMergeIndex[t])] = FALSE]
            /\ touchedBy' = [touchedBy EXCEPT ![PathOf(t, transferMergeIndex[t])] =
                                @ \cup {t}]
            /\ transferMergeIndex' = [transferMergeIndex EXCEPT ![t] = @ + 1]
            /\ transferPhase' = [transferPhase EXCEPT ![t] =
                   IF transferMergeIndex[t] + 1 < NumChunks THEN "merge" ELSE "resolved"]
       ELSE /\ transferPhase' = [transferPhase EXCEPT ![t] = "rejected"]
            /\ UNCHANGED <<transferOutput, tempFile, tempExists, touchedBy,
                           transferMergeIndex>>
    /\ UNCHANGED <<single, instanceOf, unitPc, unitSent>>

InitTwin ==
    \E size \in 1..TwinMaxSize, n \in 1..TwinMaxChunks, d \in [Transfers -> Instances] :
        /\ n <= size
        /\ InitWith([size |-> size, t |-> n, s |-> 1, r |-> 0, c |-> 1],
                    [i \in 0..(n - 1) |-> 0])
        /\ AtPlanningOne(n, 1, 0, FALSE)
        /\ instanceOf = d
        /\ transferPhase = [t \in Transfers |-> "idle"]
        /\ unitPc = [t \in Transfers |-> [j \in 0..(n - 1) |-> "idle"]]
        /\ unitSent = [t \in Transfers |-> [j \in 0..(n - 1) |-> 0]]
        /\ tempFile = [f \in TwinPaths |-> <<>>]
        /\ tempExists = [f \in TwinPaths |-> FALSE]
        /\ transferMergeIndex = [t \in Transfers |-> 0]
        /\ transferOutput = [t \in Transfers |-> <<>>]
        /\ touchedBy = [f \in TwinPaths |-> {}]
        /\ NoName

NextTwin ==
    \E t \in Transfers :
        \/ TwinStart(t)
        \/ \E j \in Chunks : TwinResponse(t, j)
        \/ \E j \in Chunks : TwinData(t, j)
        \/ \E j \in Chunks : TwinEnd(t, j)
        \/ TwinMergeStart(t)
        \/ TwinMergeChunk(t)

SpecTwin == InitTwin /\ [][NextTwin]_vars

----------------------------------------------------------------------------
(* The file name of getFileInfo: from the response of the header probe to  *)
(* the return. A string is the sequence of its characters.                 *)

\* the value of a variable that was never assigned
Undefined == <<"undefined">>

\* the state of the transfer, which does not move while the name is resolved
transfer == <<fixed, phase, batchStart, fetchVars, exists, chunkFile, mergeVars, cliVars,
              infoVars, progressVars, throttleVars, writerVars, twinVars>>

\* parseUrl of lib/utils.js: the last segment of the URL up to "?", and no
\* extension property
parseUrl(segment) == [filename |-> segment, extension |-> Undefined]

\* the position of the last "." of w, 0 if it has none
LastDot(w) ==
    IF \E i \in 1..Len(w) : w[i] = "."
    THEN CHOOSE i \in 1..Len(w) : w[i] = "." /\ \A j \in (i + 1)..Len(w) : w[j] # "."
    ELSE 0

\* w.match(/\.([^.]+)$/) is not null
ExtMatches(w) == LastDot(w) > 0 /\ LastDot(w) < Len(w)

\* w.match(/\.([^.]+)$/)[1]
ExtMatch(w) == SubSeq(w, LastDot(w) + 1, Len(w))

\* w.slice(0, -k) for k >= 1
SliceOff(w, k) == SubSeq(w, 1, Len(w) - k)

\* contentDisposition.match(/filename="?(.+)"?/i) is not null
FilenameMatches(d) == d.present /\ d.name # <<>>

\* contentDisposition.match(/filename="?(.+)"?/i)[1]: (.+) takes the rest of
\* the header value, the closing quote included
FilenameMatch(d) == IF d.quoted THEN Append(d.name, "\"") ELSE d.name

\* !extension
Falsy(e) == e = Undefined \/ e = <<>>

mimeToExt ==
    ("image/jpeg" :> <<"j", "p", "g">>) @@
    ("image/png" :> <<"p", "n", "g">>) @@
    ("image/gif" :> <<"g", "i", "f">>) @@
    ("image/webp" :> <<"w", "e", "b", "p">>) @@
    ("image/svg+xml" :> <<"s", "v", "g">>) @@
    ("image/bmp" :> <<"b", "m", "p">>) @@
    ("image/tiff" :> <<"t", "i", "f", "f">>) @@
    ("video/mp4" :> <<"m", "p", "4">>) @@
    ("video/x-msvideo" :> <<"a", "v", "i">>) @@
    ("video/avi" :> <<"a", "v", "i">>) @@
    ("audio/mp4" :> <<"m", "4", "a">>) @@
    ("audio/x-m4a" :> <<"m", "4", "a">>) @@
    ("audio/mpeg" :> <<"m", "p", "3">>) @@
    ("audio/mp3" :> <<"m", "p", "3">>) @@
    ("text/plain" :> <<"t", "x", "t">>) @@
    ("text/html" :> <<"h", "t", "m", "l">>) @@
    ("text/css" :> <<"c", "s", "s">>) @@
    ("text/javascript" :> <<"j", "s">>) @@
    ("application/json" :> <<"j", "s", "o", "n">>) @@
    ("application/xml" :> <<"x", "m", "l">>)

\* mimeToExt[contentType.split(';')[0]] || ''
ContentTypeExtension(ct) ==
    IF ct[1] \in DOMAIN mimeToExt THEN mimeToExt[ct[1]] ELSE <<>>

signatures ==
    <<[bytes |-> <<255, 216, 255>>, ext |-> <<"j", "p", "g">>],
      [bytes |-> <<137, 80, 78, 71, 13, 10, 26, 10>>, ext |-> <<"p", "n", "g">>],
      [bytes |-> <<71, 73, 70, 56>>, ext |-> <<"g", "i", "f">>],
      [bytes |-> <<82, 73, 70, 70, 0, 0, 0, 0, 87, 69, 66, 80>>, ext |-> <<"w", "e", "b", "p">>],
      [bytes |-> <<60, 63, 120, 109, 108>>, ext |-> <<"s", "v", "g">>],
      [bytes |-> <<66, 77>>, ext |-> <<"b", "m", "p">>],
      [bytes |-> <<73, 73, 42, 0>>, ext |-> <<"t", "i", "f", "f">>],
      [bytes |-> <<77, 77, 0, 42>>, ext |-> <<"t", "i", "f", "f">>],
      [bytes |-> <<102, 116, 121, 112>>, ext |-> <<"m", "p", "4">>],
      [bytes |-> <<109, 112, 52>>, ext |-> <<"m", "p", "4">>],
      [bytes |-> <<82, 73, 70, 70>>, ext |-> <<"a", "v", "i">>],
      [bytes |-> <<102, 116, 121, 112, 77, 52, 65>>, ext |-> <<"m", "4", "a">>],
      [bytes |-> <<73, 68, 51>>, ext |-> <<"m", "p", "3">>],
      [bytes |-> <<255, 251>>, ext |-> <<"m", "p", "3">>]>>

\* buffer.slice(0, sig.bytes.length).equals(Buffer.from(sig.bytes))
SignatureMatches(buffer, sig) ==
    Len(buffer) >= Len(sig.bytes) /\ SubSeq(buffer, 1, Len(sig.bytes)) = sig.bytes

\* detectFileType(buffer) || ''
detectFileType(buffer) ==
    IF \E k \in 1..Len(signatures) : SignatureMatches(buffer, signatures[k])
    THEN signatures[CHOOSE k \in 1..Len(signatures) :
                        /\ SignatureMatches(buffer, signatures[k])
                        /\ \A l \in 1..(k - 1) : ~SignatureMatches(buffer, signatures[l])].ext
    ELSE IF \A i \in 1..Len(buffer) : buffer[i] < 128
         THEN <<"t", "x", "t">>
         ELSE <<>>

\* `${filename}${extension ? `.${extension}` : ''}`
FullName(base, ext) == IF Falsy(ext) THEN base ELSE base \o <<".">> \o ext

\* extension after the content-disposition block
DispositionExtension(d, ext) ==
    IF FilenameMatches(d) /\ ExtMatches(FilenameMatch(d))
    THEN ExtMatch(FilenameMatch(d))
    ELSE ext

(* From parseUrl to the content probe: the content-disposition block, in   *)
(* which extension.length throws when extension is undefined (the catch of *)
(* getFileInfo rethrows it as an Error), and the content-type block.       *)
NameFromHeaders ==
    /\ nameStage = "headers"
    /\ IF FilenameMatches(disposition)
          /\ DispositionExtension(disposition, parseUrl(urlSegment).extension) = Undefined
       THEN /\ nameStage' = "threw"
            /\ UNCHANGED <<filename, extension, fullFilename>>
       ELSE /\ filename' =
                   IF FilenameMatches(disposition)
                   THEN SliceOff(FilenameMatch(disposition),
                                 Len(DispositionExtension(disposition,
                                         parseUrl(urlSegment).extension)) + 1)
                   ELSE parseUrl(urlSegment).filename
            /\ extension' =
                   IF Falsy(DispositionExtension(disposition,
                                parseUrl(urlSegment).extension))
                      /\ contentType # <<>>
                   THEN ContentTypeExtension(contentType)
                   ELSE DispositionExtension(disposition, parseUrl(urlSegment).extension)
            /\ IF Falsy(extension')
               THEN nameStage' = "probe" /\ fullFilename' = fullFilename
               ELSE nameStage' = "returned" /\ fullFilename' = FullName(filename', extension')
    /\ UNCHANGED <<transfer, urlSegment, disposition, contentType>>

(* The content probe is answered with the bytes buffer: the extension is   *)
(* detected and getFileInfo returns.                                       *)
NameProbed(buffer) ==
    /\ nameStage = "probe"
    /\ extension' = detectFileType(buffer)
    /\ fullFilename' = FullName(filename, detectFileType(buffer))
    /\ nameStage' = "returned"
    /\ UNCHANGED <<transfer, urlSegment, disposition, contentType, filename>>

(* The content probe fails: getFileInfo throws. *)
NameProbeFail ==
    /\ nameStage = "probe"
    /\ nameStage' = "probeFailed"
    /\ UNCHANGED <<transfer, urlSegment, disposition, contentType, filename, extension,
                   fullFilename>>

\* the last segments of the URLs
UrlSegments == {<<"f">>, <<"f", ".", "z">>, <<"a", ".", "b", ".", "z">>}

\* the filename parameters of the content-disposition headers
DispositionNames == {<<"r">>, <<"r", ".", "p">>, <<"r", ".">>, <<".", "p">>}

\* the content-disposition headers: none, one without filename, with filename
Dispositions ==
    {[present |-> FALSE], [present |-> TRUE, name |-> <<>>, quoted |-> FALSE]} \cup
    [present : {TRUE}, name : DispositionNames, quoted : BOOLEAN]

\* the content-type headers: none, in the table, with a parameter, not in it
ContentTypes ==
    {<<>>, <<"image/png">>, <<"text/html", " charset=utf-8">>, <<"application/zip">>}

\* the first bytes of the content: JPEG, RIFF (WEBP wrapper unmatched), ZIP
\* (all below 128), empty, not recognised
Buffers ==
    {<<255, 216, 255, 224>>, <<82, 73, 70, 70, 1, 0, 0, 0>>, <<80, 75, 3, 4>>, <<>>,
     <<200, 1>>}

InitName ==
    /\ InitWith([size |-> 1, t |-> 1, s |-> 1, r |-> 0, c |-> 1], [i \in {0} |-> 0])
    /\ AtPlanningOne(1, 1, 0, FALSE)
    /\ NoTwin
    /\ urlSegment \in UrlSegments
    /\ disposition \in Dispositions
    /\ contentType \in ContentTypes
    /\ nameStage = "headers"
    /\ filename = <<>>
    /\ extension = <<>>
    /\ fullFilename = <<>>

NextName ==
    \/ NameFromHeaders
    \/ \E buffer \in Buffers : NameProbed(buffer)
    \/ NameProbeFail

SpecName == InitName /\ [][NextName]_vars

----------------------------------------------------------------------------
(* Properties *)

RECURSIVE ConcatFiles(_, _)
\* the files 0..n-1 of f, concatenated in ascending index order
ConcatFiles(f, n) == IF n = 0 THEN <<>> ELSE ConcatFiles(f, n - 1) \o f[n - 1]

RECURSIVE SumLens(_, _)
\* the sum of the lengths of the files 0..n-1 of f
SumLens(f, n) == IF n = 0 THEN 0 ELSE SumLens(f, n - 1) + Len(f[n - 1])

IsPrefix(p, q) == Len(p) <= Len(q) /\ SubSeq(q, 1, Len(p)) = p

\* the chunk fetches that have started and not finished
InFlight == {i \in Chunks : pc[i] \in {"request", "backoff", "stream"}}

\* the group of connectionsPerServer consecutive chunks that chunk i is in
GroupOf(i) == i \div connectionsPerServer

\* end - start + 1 of a planned chunk
PlanSize(i) == plan[i].end - plan[i].start + 1

(* C1: at every moment the number of chunk fetches that have started and   *)
(* not finished is at most connectionsPerServer.                           *)
C1_InFlightWithinCap == Cardinality(InFlight) <= connectionsPerServer

(* C2: no chunk of group k+1 has issued its first request before every     *)
(* chunk of group k has finished.                                          *)
C2_BatchThenWait ==
    \A i, j \in Chunks :
        (GroupOf(j) = GroupOf(i) + 1 /\ issued[j] > 0) => pc[i] = "done"

(* C3: the planned ranges partition [0, fileSize-1] (every byte lies in    *)
(* exactly one range and no range leaves the file), there are              *)
(* threads x servers chunks, the last chunk's size is at most chunkSize    *)
(* and every other chunk's size is exactly chunkSize.                      *)
C3_PlanPartitions ==
    phase = "await" =>
        /\ DOMAIN plan = 0..(threads * serversLen - 1)
        /\ \A b \in 0..(fileSize - 1) :
               Cardinality({i \in Chunks : plan[i].start <= b /\ b <= plan[i].end}) = 1
        /\ \A i \in Chunks :
               \A b \in plan[i].start..plan[i].end : b \in 0..(fileSize - 1)
        /\ \A i \in Chunks :
               IF i = NumChunks - 1
               THEN PlanSize(i) <= chunkSize
               ELSE PlanSize(i) = chunkSize

(* C4: once a chunk has exhausted its attempt budget no further request is *)
(* issued for it and merge is never started.                               *)
C4_ExhaustionAborts ==
    \A i \in Chunks :
        exhaustedAt[i] # -1 =>
            /\ issued[i] = exhaustedAt[i]
            /\ phase \notin {"merge", "resolved"}

\* the back-off delays before attempts 2..n of a chunk that always fails
BackoffSchedule(n) == [k \in 1..(n - 1) |-> BackoffUnit * k]

(* C5: a chunk whose every request has failed makes at most retries+1      *)
(* attempts, and the delays before its attempts are 1000, 2000, ... in     *)
(* that order, with no other delay.                                        *)
C5_ExhaustionSchedule ==
    \A i \in Chunks :
        (responses[i] = 0 /\ pc[i] = "request") =>
            /\ issued[i] <= retries + 1
            /\ delays[i] = BackoffSchedule(issued[i])

(* C6: a ranged request issued for chunk [S,E] while N bytes are in its    *)
(* temp file starts at S+N.                                                *)
C6_RequestFromDiskLength ==
    \A i \in Chunks :
        pc[i] = "request" => rangeStart[i] = ChunkStart(i) + FileLen(i)

(* C7: a chunk that had no temp file when its fetch began and whose last   *)
(* response delivered the range to its end has reported exactly E-S+1      *)
(* bytes to the progress callback.                                         *)
C7_ProgressCountedOnce ==
    \A i \in Chunks :
        (/\ pc[i] = "done"
         /\ responses[i] > 0
         /\ resumePosition[i] = ChunkStart(i)
         /\ sent[i] = ChunkEnd(i) + 1)
        => reported[i] = ChunkEnd(i) - ChunkStart(i) + 1

(* C8: a successful mergeChunks leaves an output equal to the              *)
(* concatenation of the temp chunk files in ascending index order, of      *)
(* length the sum of their lengths.                                        *)
C8_MergeIsConcatenation ==
    phase = "resolved" =>
        /\ output = ConcatFiles(mergeInput, NumChunks)
        /\ Len(output) = SumLens(mergeInput, NumChunks)

C8_Witness ==
    /\ phase = "resolved"
    /\ NumChunks >= 2
    /\ mergeInput[0] # <<>>
    /\ mergeInput[1] # <<>>
    /\ mergeInput[0] \o mergeInput[1] # mergeInput[1] \o mergeInput[0]

(* C9: after a successful merge no temp chunk file exists, and a temp file *)
(* is unlinked only when all its bytes have been piped to the output.      *)
C9_TempFilesGoneAfterRead ==
    /\ phase = "resolved" => \A i \in Chunks : ~exists[i] /\ i \in unlinked
    /\ \A i \in unlinked : IsPrefix(ConcatFiles(mergeInput, i + 1), output)

C9_Witness ==
    /\ phase = "resolved"
    /\ NumChunks >= 2
    /\ \A i \in Chunks : mergeInput[i] # <<>>

(* C10: when downloadFile has resolved, the length of the output file is   *)
(* the file size.                                                          *)
C10_ResolvedOutputComplete ==
    phase = "resolved" => Len(output) = fileSize

(* C11: when throttle > 0, no data event of a chunk is counted and written *)
(* while the throttle pause that follows the previous data event of that   *)
(* chunk has not elapsed.                                                  *)
C11_ThrottlePause ==
    [][\A i \in Chunks :
          (throttle > 0 /\ throttled[i]) =>
              ~(/\ reported'[i] > reported[i]
                /\ Len(chunkFile'[i]) > Len(chunkFile[i]))]_vars

(* C12: when the header probe is answered without a content-length, the   *)
(* server set is not resolved, no chunk is planned, no ranged request is   *)
(* issued, no temp chunk file is created, and when downloadFile resolves   *)
(* the output file is the body of the un-ranged response.                  *)
C12_UnknownSizeUnchunked ==
    (probeStatus = 200 /\ fileSize = UnknownSize) =>
        /\ servers = <<>>
        /\ serverRequests = 0
        /\ phase \notin {"servers", "plan", "await", "merge"}
        /\ \A i \in DOMAIN issued : issued[i] = 0
        /\ \A i \in DOMAIN exists : ~exists[i]
        /\ phase = "resolved" => output = body

C12_Witness ==
    /\ probeStatus = 200
    /\ fileSize = UnknownSize
    /\ phase = "resolved"
    /\ plainRequests = 1
    /\ Len(body) >= 2

\* the header probe has failed: no response, or a status outside 200..299
ProbeFailed ==
    \/ probeStatus = TransportFailure
    \/ probeStatus # NoResponse /\ probeStatus \notin 200..299

(* C14: when the header probe has failed, downloadFile has rejected after  *)
(* exactly one probe, no other request has been issued and no temp chunk   *)
(* file and no output file has been created.                               *)
C14_ProbeFailureFatal ==
    ProbeFailed =>
        /\ phase = "rejected"
        /\ probes = 1
        /\ serverRequests = 0
        /\ plainRequests = 0
        /\ \A i \in DOMAIN issued : issued[i] = 0
        /\ \A i \in DOMAIN exists : ~exists[i]
        /\ ~outputCreated

C14_Witness ==
    /\ probeStatus = 404
    /\ phase = "rejected"
    /\ exitCode = 1

\* what getParallelServers has returned is what the claim says it returns
ServersAsClaimed ==
    servers # <<>> =>
        IF parallelServers <= 1
        THEN servers = <<fileUrl>> /\ serverRequests = 0
        ELSE IF serversOutcome = "ok"
        THEN /\ Len(servers) = parallelServers
             /\ \A k \in 1..parallelServers : servers[k] = <<Letters[k]>> \o responseUrl
        ELSE servers = <<fileUrl>>

(* C15: getParallelServers never raises (downloadFile goes on to planning  *)
(* whatever the outcome of its request); for a count <= 1 it returns the   *)
(* URL given and issues no request; for a count N > 1 it returns N URLs,   *)
(* the k-th with the k-th letter prefixed to the host that answered, when  *)
(* its request succeeds, and the URL given alone when it fails.            *)
C15_ParallelServers ==
    [][/\ phase = "servers" => phase' \in {"servers", "plan"}
       /\ ServersAsClaimed']_vars

C15_Witness ==
    /\ phase = "plan"
    /\ serversOutcome = "ok"
    /\ Len(servers) >= 2
    /\ responseUrl # fileUrl

(* C13: when reading or deleting a temp chunk file has failed during       *)
(* merge, downloadFile has rejected.                                       *)
C13_MergeFailureRejects ==
    mergeFailure # "none" => phase = "rejected"

(* C16: the process exits with code 0 only when downloadFile has resolved  *)
(* and no fatal error (missing URL, chunk exhaustion, merge failure) has   *)
(* occurred, and with a non-zero code only otherwise.                      *)
C16_ExitCodes ==
    /\ exitCode = 0 =>
           /\ urlGiven
           /\ phase = "resolved"
           /\ \A i \in Chunks : exhaustedAt[i] = -1
           /\ mergeFailure = "none"
    /\ exitCode \notin {Running, 0} => (~urlGiven \/ phase # "resolved")

\* the time of the last sample, or of the transfer start when there was none
LastSampleOrStart == IF sampleTime = -1 THEN startTime ELSE sampleTime

\* the bytes received up to the last sample
LastSampleBytes == IF sampleTime = -1 THEN 0 ELSE sampleBytes

(* C17: on a progress increment a sample is produced if and only if at     *)
(* least 1000 ms have elapsed since the last sample (or since the transfer *)
(* start when there was none), and the speed of the sample is the bytes    *)
(* received since the last sample over that elapsed time.                  *)
C17_SampleEverySecond ==
    [][totalDownloaded' # totalDownloaded =>
          /\ (samples' = samples + 1) <=> (now - LastSampleOrStart >= SampleInterval)
          /\ samples' = samples + 1 =>
                 speed' = [bytes |-> totalDownloaded' - LastSampleBytes,
                           ms |-> now - LastSampleOrStart]]_vars

\* the time of the last full-line log, or of the transfer start
LastFullLineOrStart == IF fullLineTime = -1 THEN startTime ELSE fullLineTime

(* C18: a progress sample is emitted as a full new log line if and only if *)
(* debug mode is on or 180000 ms have elapsed since the last full-line log *)
(* (initially the transfer start); so with debug off two full-line logs    *)
(* are never less than 180000 ms apart.                                    *)
C18_FullLinePolicy ==
    [][samples' = samples + 1 =>
          ((fullLines' = fullLines + 1) <=>
               (debug \/ now - LastFullLineOrStart >= DetailedLogInterval))]_vars

\* the planned ranges of the first n chunks, in index order
Ranges(n) == [i \in 1..n |-> <<plan[i - 1].start, plan[i - 1].end>>]

(* C19: the chunk of thread t of server s has index i = s x threads + t,   *)
(* is fetched from servers[s] and has the range                            *)
(* [i x chunkSize, min((i+1) x chunkSize - 1, fileSize - 1)]; each server  *)
(* is the origin of exactly threads chunks; a file of 1000 bytes planned   *)
(* for 4 threads and one server, and one of 10 bytes for 3 threads, have   *)
(* the ranges of the scenarios.                                            *)
C19_ChunkOrigins ==
    phase = "await" =>
        /\ \A sv \in 0..(serversLen - 1), t \in 0..(threads - 1) :
               /\ sv * threads + t \in DOMAIN plan
               /\ plan[sv * threads + t].index = sv * threads + t
               /\ plan[sv * threads + t].server = sv
               /\ plan[sv * threads + t].start = (sv * threads + t) * chunkSize
               /\ plan[sv * threads + t].end =
                      Min((sv * threads + t + 1) * chunkSize - 1, fileSize - 1)
        /\ \A sv \in 0..(serversLen - 1) :
               Cardinality({i \in DOMAIN plan : plan[i].server = sv}) = threads
        /\ (fileSize = 1000 /\ threads = 4 /\ serversLen = 1) =>
               Ranges(4) = <<<<0, 249>>, <<250, 499>>, <<500, 749>>, <<750, 999>>>>
        /\ (fileSize = 10 /\ threads = 3 /\ serversLen = 1) =>
               Ranges(3) = <<<<0, 3>>, <<4, 7>>, <<8, 9>>>>

C19_Witness ==
    /\ phase = "await"
    /\ fileSize = 10
    /\ threads = 3
    /\ serversLen = 2
    /\ plan[5].server = 1

(* C20: a stream interruption after streaming has started does not count  *)
(* against the attempt budget and issues no request by itself; the request *)
(* reissued after it is issued after a pause of 5000 ms and with the       *)
(* attempt count at zero, and a chunk exhausts its budget only when        *)
(* retries + 1 requests have failed since then.                            *)
C20_ResumeRearmsAttempts ==
    [][\A i \in Chunks :
          /\ (pc[i] = "stream" /\ pc'[i] = "lost") =>
                 /\ attempts'[i] = attempts[i]
                 /\ issued'[i] = issued[i]
          /\ (pc[i] = "lost" /\ pc'[i] = "request") =>
                 /\ attempts'[i] = 0
                 /\ issued'[i] = issued[i] + 1
                 /\ delays[i] # <<>>
                 /\ delays[i][Len(delays[i])] = ResumeDelay
          /\ (pc[i] = "request" /\ pc'[i] = "lost") =>
                 attempts'[i] = retries + 1]_vars

C20_Witness ==
    \E i \in Chunks :
        /\ retries >= 1
        /\ responses[i] = 1
        /\ pc[i] = "request"
        /\ attempts[i] = retries
        /\ delays[i] = <<ResumeDelay>> \o BackoffSchedule(retries + 1)

C22_TempFileIsPrefix ==
    phase = "await" =>
        \A i \in Chunks :
            /\ chunkFile[i] = Bytes(ChunkStart(i), ChunkStart(i) + FileLen(i) - 1)
            /\ FileLen(i) = 0 \/ FileLen(i) <= PlanSize(i)

(* C23: when downloadChunkWithResume of chunk [S,E] has returned, the temp *)
(* file of the chunk has length E-S+1.                                     *)
C23_CompleteMeansAllBytes ==
    phase = "await" =>
        \A i \in Chunks : pc[i] = "done" => FileLen(i) = PlanSize(i)

(* C24: every chunk fetch eventually terminates, as complete or as failed, *)
(* and downloadFile eventually ends (resolved, rejected, or with the       *)
(* process taken down by an exception).                                    *)
C24_FetchesTerminate ==
    <>(/\ phase \in {"resolved", "rejected", "uncaught"}
       /\ \A i \in Chunks : pc[i] \in {"done", "failed"})

\* mergeChunks has been called
MergeStarted == phase \in {"merge", "resolved", "rejected", "uncaught"}

(* C25: mergeChunks is called only when every planned chunk fetch has      *)
(* returned, and once it has been called no chunk fetch is in flight and   *)
(* no chunk request is issued.                                             *)
C25_MergeAfterAllFetches ==
    [][/\ (~MergeStarted /\ MergeStarted') =>
              /\ outputCreated'
              /\ \A i \in Chunks : pc[i] = "done"
       /\ MergeStarted =>
              /\ \A i \in Chunks : pc'[i] = "done"
              /\ issued' = issued
              /\ responses' = responses
              /\ InFlight' = {}]_vars

C25_Witness ==
    /\ phase = "merge"
    /\ NumChunks >= 2
    /\ connectionsPerServer < NumChunks
    /\ \A i \in Chunks : responses[i] >= 1
    /\ \E i \in Chunks : issued[i] >= 2

(* C26: mergeChunks takes the chunks in ascending index order, one at a    *)
(* time: when it is at chunk i the temp files 0..i-1, and no others, have  *)
(* been read to their end and unlinked, the output holds them in that      *)
(* order, followed by the data of chunk i once its reader has delivered    *)
(* it, and the temp file of every later chunk is untouched.                *)
C26_MergeAscending ==
    mergeStage # "none" =>
        /\ mergeIndex \in 0..NumChunks
        /\ unlinked = 0..(mergeIndex - 1)
        /\ output = ConcatFiles(mergeInput, mergeIndex) \o
                        (IF mergeStage = "piped" THEN mergeInput[mergeIndex] ELSE <<>>)
        /\ \A j \in Chunks :
               j > mergeIndex => chunkFile[j] = mergeInput[j] /\ j \notin unlinked
        /\ \A j \in Chunks : j < mergeIndex => ~exists[j]

C26_Witness ==
    /\ phase = "merge"
    /\ mergeStage = "piped"
    /\ mergeIndex = 1
    /\ unlinked = {0}
    /\ mergeInput[0] # <<>>
    /\ mergeInput[1] # <<>>
    /\ mergeInput[0] # mergeInput[1]
    /\ output = mergeInput[0] \o mergeInput[1]

(* C27: when mergeChunks has opened the temp file of chunk i and has not   *)
(* yet read it, no byte received for chunk i is still in the chunk's       *)
(* writer: the file holds all that the fetch handed to the writer.         *)
C27_FlushedBeforeMerge ==
    (phase = "merge" /\ mergeStage = "open" /\ mergeIndex \in Chunks) =>
        buffered[MergeSource(mergeIndex)] = <<>>

\* the fetches whose writer is open on the temp file of path f
Appenders(f) ==
    {p \in Chunks : pc[p] \in {"stream", "stalled"} /\ getTempChunkPath(plan[p].index) = f}

(* C28: the chunk indices of a transfer are 0..N-1, each given to one      *)
(* fetch, each index has a temp file path of its own, no temp file has     *)
(* the open writers of two fetches, and a temp file grows only by the      *)
(* bytes the live response of its own fetch delivers.                      *)
C28_OneFetchPerTempFile ==
    [][/\ phase' # "plan" =>
              /\ {plan'[p].index : p \in Chunks} = Chunks
              /\ \A p, q \in Chunks :
                     p # q =>
                         /\ plan'[p].index # plan'[q].index
                         /\ getTempChunkPath(plan'[p].index) #
                                getTempChunkPath(plan'[q].index)
              /\ \A p \in Chunks :
                     Cardinality(Appenders(getTempChunkPath(plan[p].index))') <= 1
       /\ phase = "await" =>
              \A p \in Chunks :
                  chunkFile'[p] # chunkFile[p] =>
                      /\ pc[p] = "stream"
                      /\ plan[p].index = p
                      /\ sent'[p] > sent[p]
                      /\ chunkFile'[p] = chunkFile[p] \o Bytes(sent[p], sent'[p] - 1)
                      /\ \A q \in Chunks : q # p => chunkFile'[q] = chunkFile[q]]_vars

C28_Witness ==
    /\ phase = "await"
    /\ serversLen >= 2
    /\ \A p \in Chunks : pc[p] = "stream" /\ FileLen(p) > 0
    /\ \E p \in Chunks : zombie[p] > 0

RECURSIVE SumReported(_)
\* the sum of the byte counts the chunks 0..n-1 have reported
SumReported(n) == IF n = 0 THEN 0 ELSE SumReported(n - 1) + reported[n - 1]

(* C29: under every interleaving of the data events of the chunk fetches   *)
(* (abandoned responses included) totalDownloaded.size is the sum of the   *)
(* byte counts reported so far by all chunks.                              *)
C29_CounterIsSum == totalDownloaded = SumReported(NumChunks)

C29_Witness ==
    /\ NumChunks >= 2
    /\ phase = "await"
    /\ \A i \in Chunks : reported[i] >= 1
    /\ \E i \in Chunks : pc[i] = "stream" /\ reported[i] > FileLen(i)
    /\ totalDownloaded >= 3

\* no fault was injected and no temp file was left over when the fetches began
FaultFree ==
    /\ faults = 0
    /\ \A i \in Chunks : resumePosition[i] = ChunkStart(i) /\ zombie[i] = 0

(* C30: on a fault-free transport, for every file size >= 1 and every      *)
(* threads, servers and connectionsPerServer >= 1, downloadFile does not   *)
(* reject, and when it has resolved the output file is the source bytes    *)
(* 0..fileSize-1.                                                          *)
C30_FaultFreeDownload ==
    (FaultFree /\ fileSize >= 1) =>
        /\ phase \notin {"rejected", "uncaught"}
        /\ phase = "resolved" => output = Bytes(0, fileSize - 1)

(* C31: two downloadFile transfers running at once on one Downloader       *)
(* instance never read, append to or unlink the same temp chunk file.      *)
C31_TransfersDisjoint ==
    instanceOf[1] = instanceOf[2] =>
        \A f \in TwinPaths : Cardinality(touchedBy[f]) <= 1

\* the same of two transfers on two instances
DistinctInstancesDisjoint ==
    instanceOf[1] # instanceOf[2] =>
        \A f \in TwinPaths : Cardinality(touchedBy[f]) <= 1

\* the name the file name is taken from: the content-disposition filename if
\* there is one, else the last segment of the URL path
NameSource == IF FilenameMatches(disposition) THEN disposition.name ELSE urlSegment

\* its part before the suffix
ClaimedBase ==
    IF ExtMatches(NameSource) THEN SubSeq(NameSource, 1, LastDot(NameSource) - 1)
    ELSE NameSource

\* the extension the headers give: the suffix of the name, else the one the
\* content-type maps to
ClaimedHeaderExtension ==
    IF ExtMatches(NameSource) THEN ExtMatch(NameSource)
    ELSE IF contentType # <<>> THEN ContentTypeExtension(contentType)
    ELSE <<>>

(* C32: getFileInfo does not fail on any combination of headers, asks the  *)
(* content probe only when neither the name nor the content-type gives an  *)
(* extension, and returns base + "." + extension (the base alone when the  *)
(* extension is empty), base and extension taken first-match-wins from the *)
(* content-disposition filename, the URL path, the content-type and the    *)
(* content probe.                                                          *)
C32_FilenameOrder ==
    /\ nameStage # "threw"
    /\ nameStage = "probe" => ClaimedHeaderExtension = <<>> /\ filename = ClaimedBase
    /\ nameStage = "returned" =>
           fullFilename =
               FullName(ClaimedBase,
                        IF ClaimedHeaderExtension # <<>> THEN ClaimedHeaderExtension
                        ELSE extension)
====
